---- MODULE Spec2Model ----
(***************************************************************************)
(* The Kepler/K2 dashboard: update-metrics.py collects metrics from the    *)
(* NExScI archive, kpub, Twitter and GitHub and writes them to             *)
(* kepler-dashboard.json; update-html.py reads that file and renders       *)
(* html/index.html from a Jinja2 template.                                 *)
(*                                                                         *)
(* Conventions of the model                                                *)
(*  - a Python value is a record [type, n, s, items]: type is "str",       *)
(*    "int" (native int), "int64" (numpy.int64), "int32" (numpy.int32, a   *)
(*    type json cannot serialize and default() does not coerce) or "dict"; *)
(*    n is the integer, s the text, items the ordered item list;           *)
(*  - an OrderedDict is a sequence of <<key, value>> pairs with distinct   *)
(*    keys, in insertion order;                                            *)
(*  - text (a str value) is a sequence of characters; a run of ordinary    *)
(*    characters may be written as one element ("planets"), the            *)
(*    characters json treats specially (quote, backslash, whitespace,      *)
(*    punctuation, digits) are always single;                              *)
(*  - JSON text (the file, a web reply) is the sequence of the chunks      *)
(*    json.dump writes one by one, each chunk a sequence of characters: a  *)
(*    string literal, a number, a brace, a separator with its indent; a    *)
(*    file cut short by an exception holds the chunks written before it;   *)
(*  - a float column value is [nan, x] with x in hundredths (1.25 is 125). *)
(***************************************************************************)
EXTENDS Integers, Sequences, FiniteSets, TLC

VARIABLES
    env,            \* what the outside world answers in this run
    pc,             \* position of update-metrics.py
    df_exoplanets,  \* get_composite_planet_table: first table read
    df_composite,   \* get_composite_planet_table: second table read
    df,             \* the joined table
    pmetrics,       \* get_planet_metrics: the OrderedDict `metrics`
    metrics,        \* __main__: the OrderedDict `metrics`
    files,          \* the files on disk, by name
    fetchLog,       \* the external fetches issued so far
    callLog,        \* collector calls and returns so far
    error,          \* the exception that ended update-metrics.py
    rpc,            \* position of update-html.py
    rmetrics,       \* update-html.py: `metrics`
    month,          \* update-html.py: `month`
    rerror          \* the exception that ended update-html.py

vars == <<env, pc, df_exoplanets, df_composite, df, pmetrics, metrics, files,
          fetchLog, callLog, error, rpc, rmetrics, month, rerror>>

-----------------------------------------------------------------------------
(* Python values *)

Str(s) == [type |-> "str", n |-> 0, s |-> s, items |-> <<>>]
PyInt(n) == [type |-> "int", n |-> n, s |-> <<>>, items |-> <<>>]
Int64(n) == [type |-> "int64", n |-> n, s |-> <<>>, items |-> <<>>]
Int32(n) == [type |-> "int32", n |-> n, s |-> <<>>, items |-> <<>>]
Dict(items) == [type |-> "dict", n |-> 0, s |-> <<>>, items |-> items]

Keys(d) == [i \in DOMAIN d |-> d[i][1]]
HasKey(d, k) == \E i \in DOMAIN d : d[i][1] = k
Get(d, k) == d[CHOOSE i \in DOMAIN d : d[i][1] = k][2]

\* OrderedDict.__setitem__: a new key is appended, an old key keeps its place
SetItem(d, k, v) ==
    IF HasKey(d, k)
    THEN [i \in DOMAIN d |-> IF d[i][1] = k THEN <<k, v>> ELSE d[i]]
    ELSE Append(d, <<k, v>>)

\* int.__add__ / numpy.int64.__add__: the sum is int64 as soon as one side is
AddCounts(a, b) ==
    IF a.type = "int" /\ b.type = "int" THEN PyInt(a.n + b.n) ELSE Int64(a.n + b.n)

-----------------------------------------------------------------------------
(* The planet tables *)

NaN == [nan |-> TRUE, x |-> 0]
F(x) == [nan |-> FALSE, x |-> x]

\* float comparisons of a column with a constant: NaN compares False
Lt(a, c) == ~a.nan /\ a.x < c
Ge(a, c) == ~a.nan /\ a.x >= c

EarthMax == 125
SuperEarthMax == 200
NeptuneMax == 600
JupiterMax == 1500

\* a boolean column (a mask) is the set of the row numbers where it is True;
\* `&` is the intersection and .sum() the cardinality
is_kepler(t) == {i \in DOMAIN t : t[i].pl_facility = "Kepler"}
is_k2(t) == {i \in DOMAIN t : t[i].pl_facility = "K2"}
is_earth_size(t) == {i \in DOMAIN t : Lt(t[i].fpl_rade, EarthMax)}
\* mutant: the upper threshold of the bin taken inclusive
is_super_earth_size_Inclusive(t) ==
    {i \in DOMAIN t : Ge(t[i].fpl_rade, EarthMax) /\ ~t[i].fpl_rade.nan
                      /\ t[i].fpl_rade.x <= SuperEarthMax}
is_super_earth_size(t) ==
    {i \in DOMAIN t : Ge(t[i].fpl_rade, EarthMax) /\ Lt(t[i].fpl_rade, SuperEarthMax)}
is_neptune_size(t) ==
    {i \in DOMAIN t : Ge(t[i].fpl_rade, SuperEarthMax) /\ Lt(t[i].fpl_rade, NeptuneMax)}
is_jupiter_size(t) ==
    {i \in DOMAIN t : Ge(t[i].fpl_rade, NeptuneMax) /\ Lt(t[i].fpl_rade, JupiterMax)}
is_larger_size(t) == {i \in DOMAIN t : Ge(t[i].fpl_rade, JupiterMax)}

\* ((err1 - err2) / value) < 0.2 in float arithmetic: NaN in, False out;
\* a division by zero gives -inf (True), +inf or NaN (False)
RelErrBelow20(err1, err2, value) ==
    IF err1.nan \/ err2.nan \/ value.nan THEN FALSE
    ELSE LET d == err1.x - err2.x
         IN  IF value.x > 0 THEN 5 * d < value.x
             ELSE IF value.x < 0 THEN 5 * d > value.x
             ELSE d < 0

\* fpl_bmasselim != 1: NaN != 1 is True
has_mass(t) ==
    {i \in DOMAIN t : /\ t[i].fpl_bmassprov = "Mass"
                      /\ (t[i].fpl_bmasselim.nan \/ t[i].fpl_bmasselim.x # 1)}
\* mutant: the precision test without `has_mass &`
has_mass_10percent_AnyProvenance(t) ==
    {i \in DOMAIN t :
        RelErrBelow20(t[i].fpl_bmasseerr1, t[i].fpl_bmasseerr2, t[i].fpl_bmasse)}
has_mass_10percent(t) ==
    has_mass(t) \cap
    {i \in DOMAIN t :
        RelErrBelow20(t[i].fpl_bmasseerr1, t[i].fpl_bmasseerr2, t[i].fpl_bmasse)}
has_radius_10percent(t) ==
    {i \in DOMAIN t :
        RelErrBelow20(t[i].fpl_radeerr1, t[i].fpl_radeerr2, t[i].fpl_rade)}

\* pd.merge(left, right, left_on='pl_name', right_on='fpl_name'): the inner
\* join, one row per matching pair, in the order of the left table
RECURSIVE MergeFrom(_, _, _)
MergeFrom(left, right, i) ==
    IF i > Len(left) THEN <<>>
    ELSE LET l == left[i]
             M == SelectSeq(right, LAMBDA r : r.fpl_name = l.pl_name)
         IN  [j \in DOMAIN M |->
                 [pl_name |-> l.pl_name, pl_facility |-> l.pl_facility,
                  fpl_name |-> M[j].fpl_name,
                  fpl_rade |-> M[j].fpl_rade,
                  fpl_radeerr1 |-> M[j].fpl_radeerr1,
                  fpl_radeerr2 |-> M[j].fpl_radeerr2,
                  fpl_bmassprov |-> M[j].fpl_bmassprov,
                  fpl_bmasselim |-> M[j].fpl_bmasselim,
                  fpl_bmasse |-> M[j].fpl_bmasse,
                  fpl_bmasseerr1 |-> M[j].fpl_bmasseerr1,
                  fpl_bmasseerr2 |-> M[j].fpl_bmasseerr2]]
             \o MergeFrom(left, right, i + 1)

Merge(left, right) == MergeFrom(left, right, 1)

\* mutant: the first assertion left out
SanityChecksPass_JoinOnly(exoplanets, composite, joined) ==
    Len(joined) = Len(exoplanets)

\* the two sanity checks of get_composite_planet_table
SanityChecksPass(exoplanets, composite, joined) ==
    /\ Len(exoplanets) = Len(composite)
    /\ Len(joined) = Len(exoplanets)

\* (mask).sum(): a numpy.int64
Sum(mask) == Int64(Cardinality(mask))

\* lines 83-92 and 93-102: the ten counts of one facility, in order
FacilityCounts(t, prefix, is_fac) ==
    << <<prefix \o "confirmed_count", Sum(is_fac)>>,
       <<prefix \o "confirmed_with_mass_count", Sum(is_fac \cap has_mass(t))>>,
       <<prefix \o "confirmed_with_mass_10percent_count",
         Sum(is_fac \cap has_mass_10percent(t))>>,
       <<prefix \o "confirmed_with_radius_10percent_count",
         Sum(is_fac \cap has_radius_10percent(t))>>,
       <<prefix \o "confirmed_with_mass_radius_10percent_count",
         Sum(is_fac \cap has_mass_10percent(t) \cap has_radius_10percent(t))>>,
       <<prefix \o "earth_size_count", Sum(is_fac \cap is_earth_size(t))>>,
       <<prefix \o "super_earth_size_count", Sum(is_fac \cap is_super_earth_size(t))>>,
       <<prefix \o "neptune_size_count", Sum(is_fac \cap is_neptune_size(t))>>,
       <<prefix \o "jupiter_size_count", Sum(is_fac \cap is_jupiter_size(t))>>,
       <<prefix \o "larger_size_count", Sum(is_fac \cap is_larger_size(t))>> >>

\* lines 82-102: twenty new keys, each appended in turn
ConfirmedCounts(table) ==
    FacilityCounts(table, "kepler_", is_kepler(table))
        \o FacilityCounts(table, "k2_", is_k2(table))

\* mutant: the list without its first name
CombinedNames_NoCandidates ==
    <<"confirmed", "confirmed_with_mass", "earth_size",
      "super_earth_size", "neptune_size", "jupiter_size", "larger_size">>

\* lines 115-116: the names that get a combined total
CombinedNames ==
    <<"candidates", "confirmed", "confirmed_with_mass", "earth_size",
      "super_earth_size", "neptune_size", "jupiter_size", "larger_size">>

\* lines 115-118: metrics[name + '_count'] = kepler + k2, name by name; the
\* keys are new ones, appended in the order of the list
CombinedCounts(m) ==
    m \o [i \in DOMAIN CombinedNames |->
            <<CombinedNames[i] \o "_count",
              AddCounts(Get(m, "kepler_" \o CombinedNames[i] \o "_count"),
                        Get(m, "k2_" \o CombinedNames[i] \o "_count"))>>]

-----------------------------------------------------------------------------
(* json.dump(metrics, output, indent=True, default=default) *)

Quote == "\""
Backslash == "\\"
Newline == "\n"
Digits == <<"0", "1", "2", "3", "4", "5", "6", "7", "8", "9">>

\* the concatenation of the sequences ss[lo], ..., ss[hi]
RECURSIVE ConcatRange(_, _, _)
ConcatRange(ss, lo, hi) ==
    IF lo > hi THEN <<>>
    ELSE IF lo = hi THEN ss[lo]
    ELSE ConcatRange(ss, lo, (lo + hi) \div 2)
            \o ConcatRange(ss, ((lo + hi) \div 2) + 1, hi)

Concat(ss) == ConcatRange(ss, 1, Len(ss))

\* the numbers lo, lo + 1, ..., hi in a row
Indices(lo, hi) == [j \in 1..(hi - lo + 1) |-> lo + j - 1]

\* int.__repr__
RECURSIVE NatToText(_)
NatToText(n) ==
    IF n < 10 THEN <<Digits[n + 1]>>
    ELSE NatToText(n \div 10) \o <<Digits[(n % 10) + 1]>>

IntToText(n) == IF n < 0 THEN <<"-">> \o NatToText(-n) ELSE NatToText(n)

\* json.encoder.py_encode_basestring_ascii: the string between quotes, with
\* quote, backslash and newline escaped
EscapeChar(c) ==
    IF c = Quote THEN <<Backslash, Quote>>
    ELSE IF c = Backslash THEN <<Backslash, Backslash>>
    ELSE IF c = Newline THEN <<Backslash, "n">>
    ELSE <<c>>

EncodeString(s) ==
    <<Quote>> \o Concat([i \in DOMAIN s |-> EscapeChar(s[i])]) \o <<Quote>>

\* indent=True is indent=1: a newline and one space per level
NewlineIndent(level) == <<Newline>> \o [k \in 1..level |-> " "]

\* mutant: str(o) where int(o) is meant
default_AsText(o) ==
    IF o.type = "int64" THEN [ok |-> TRUE, v |-> Str(IntToText(o.n))]
    ELSE [ok |-> FALSE, v |-> o]

\* update-metrics.py default(o): numpy.int64 becomes int, anything else raises
default(o) ==
    IF o.type = "int64" THEN [ok |-> TRUE, v |-> PyInt(o.n)]
    ELSE [ok |-> FALSE, v |-> o]

\* json's _iterencode: [ok, text], text being the chunks it yields, each
\* written to the file as it is yielded; when a value cannot be serialized,
\* ok is FALSE and text holds the chunks written before TypeError rose
RECURSIVE EncodeValue(_, _)
EncodeValue(v, level) ==
    IF v.type = "str" THEN [ok |-> TRUE, text |-> <<EncodeString(v.s)>>]
    ELSE IF v.type = "int" THEN [ok |-> TRUE, text |-> <<IntToText(v.n)>>]
    ELSE IF v.type = "dict" THEN
        IF v.items = <<>> THEN [ok |-> TRUE, text |-> <<<<"{", "}">>>>]
        ELSE LET enc == [i \in DOMAIN v.items |-> EncodeValue(v.items[i][2], level + 1)]
                 bad == {i \in DOMAIN v.items : ~enc[i].ok}
                 last == IF bad = {} THEN Len(v.items)
                         ELSE CHOOSE i \in bad : \A j \in bad : i <= j
                 item(i) ==
                     (IF i = 1 THEN <<>> ELSE <<<<",">> \o NewlineIndent(level + 1)>>)
                     \o <<EncodeString(<<v.items[i][1]>>), <<":", " ">>>>
                     \o enc[i].text
                 opened == <<<<"{">>, NewlineIndent(level + 1)>>
                              \o Concat([i \in 1..last |-> item(i)])
             IN  IF bad = {}
                 THEN [ok |-> TRUE, text |-> opened \o <<NewlineIndent(level), <<"}">>>>]
                 ELSE [ok |-> FALSE, text |-> opened]
    ELSE LET r == default(v)
         IN  IF r.ok THEN EncodeValue(r.v, level) ELSE [ok |-> FALSE, text |-> <<>>]

Dumps(d) == EncodeValue(Dict(d), 0)

-----------------------------------------------------------------------------
(* json.load(open('kepler-dashboard.json')) *)

IsWs(c) == c = " " \/ c = Newline
IsDigit(c) == \E k \in DOMAIN Digits : Digits[k] = c
DigitValue(c) == (CHOOSE k \in DOMAIN Digits : Digits[k] = c) - 1

ParseError == [ok |-> FALSE, v |-> PyInt(0)]

RECURSIVE JoinText(_)
JoinText(s) == IF s = <<>> THEN "" ELSE s[1] \o JoinText(Tail(s))

RECURSIVE ScanDigits(_, _, _)
ScanDigits(t, i, acc) ==
    IF i <= Len(t) /\ IsDigit(t[i])
    THEN ScanDigits(t, i + 1, 10 * acc + DigitValue(t[i]))
    ELSE [v |-> acc, next |-> i]

\* the lexemes of the text: a string and a number are each one lexeme, as
\* they are written; any other character but whitespace is one of its own
IsString(c) == c # <<>> /\ c[1] = Quote
IsNumber(c) == c # <<>> /\ \A k \in DOMAIN c : IsDigit(c[k]) \/ c[k] = "-"

Lexemes(chunk) ==
    IF IsString(chunk) \/ IsNumber(chunk) THEN <<chunk>>
    ELSE LET s == SelectSeq(chunk, LAMBDA c : ~IsWs(c))
         IN  [k \in DOMAIN s |-> <<s[k]>>]

Tokens(text) == Concat([k \in DOMAIN text |-> Lexemes(text[k])])

\* a string lexeme read back: the characters between the quotes, escapes
\* undone. A backslash after an even number of backslashes starts an escape.
ParseString(c) ==
    LET s == SubSeq(c, 2, Len(c) - 1)
        run(i) == i - 1 - CHOOSE j \in 0..(i - 1) :
                      /\ j = 0 \/ s[j] # Backslash
                      /\ \A k \in (j + 1)..(i - 1) : s[k] = Backslash
        lead(i) == s[i] = Backslash /\ run(i) % 2 = 0
        escaped(i) == i > 1 /\ lead(i - 1)
        kept == SelectSeq(Indices(1, Len(s)), LAMBDA i : ~lead(i))
        valid(i) ==
            IF lead(i) THEN i < Len(s)
            ELSE IF escaped(i) THEN s[i] \in {Quote, Backslash, "n"}
            ELSE s[i] # Quote /\ s[i] # Newline
    IN  IF Len(c) < 2 \/ c[Len(c)] # Quote \/ \E i \in DOMAIN s : ~valid(i)
        THEN ParseError
        ELSE [ok |-> TRUE,
              v |-> Str([r \in DOMAIN kept |->
                         IF escaped(kept[r]) /\ s[kept[r]] = "n" THEN Newline
                         ELSE s[kept[r]]])]

\* a number lexeme read back
ParseNumber(c) ==
    LET neg == c[1] = "-"
        j == IF neg THEN 2 ELSE 1
        d == ScanDigits(c, j, 0)
    IN  IF d.next = j \/ d.next <= Len(c) THEN ParseError
        ELSE [ok |-> TRUE, v |-> PyInt(IF neg THEN -d.v ELSE d.v)]

\* where the lexemes open and close an object
Braces(tk) ==
    [open |-> {j \in DOMAIN tk : tk[j] = <<"{">>},
     close |-> {j \in DOMAIN tk : tk[j] = <<"}">>}]

\* how many objects are open just before lexeme i
DepthBefore(br, i) ==
    Cardinality({j \in br.open : j < i}) - Cardinality({j \in br.close : j < i})

\* dict(pairs): a repeated key keeps its first place and its last value
DictOf(pairs) ==
    IF Cardinality({pairs[k][1] : k \in DOMAIN pairs}) = Len(pairs) THEN pairs
    ELSE LET first == SelectSeq(Indices(1, Len(pairs)), LAMBDA k :
                                 \A j \in 1..(k - 1) : pairs[j][1] # pairs[k][1])
             lastOf(key) == CHOOSE k \in DOMAIN pairs :
                                /\ pairs[k][1] = key
                                /\ \A j \in (k + 1)..Len(pairs) : pairs[j][1] # key
         IN  [r \in DOMAIN first |->
                 <<pairs[first[r]][1], pairs[lastOf(pairs[first[r]][1])][2]>>]

\* the value that lexemes lo..hi spell, if they spell one: a string, a
\* number, or an object { "key": value, ... }
RECURSIVE ParseRange(_, _, _, _)
ParseRange(tk, br, lo, hi) ==
    IF lo > hi THEN ParseError
    ELSE IF lo = hi THEN
        IF IsString(tk[lo]) THEN ParseString(tk[lo])
        ELSE IF IsNumber(tk[lo]) THEN ParseNumber(tk[lo])
        ELSE ParseError
    ELSE IF tk[lo] # <<"{">> \/ tk[hi] # <<"}">> THEN ParseError
    ELSE LET base == DepthBefore(br, lo)
             closed == \E j \in br.close :
                           lo <= j /\ j < hi /\ DepthBefore(br, j + 1) <= base
             commas == SelectSeq(Indices(lo + 1, hi - 1), LAMBDA j :
                           tk[j] = <<",">> /\ DepthBefore(br, j) = base + 1)
             n == Len(commas) + 1
             from(k) == IF k = 1 THEN lo + 1 ELSE commas[k - 1] + 1
             to(k) == IF k = n THEN hi - 1 ELSE commas[k] - 1
             key(k) == ParseString(tk[from(k)])
             val == [k \in 1..n |->
                        IF to(k) < from(k) + 2 THEN ParseError
                        ELSE IF ~IsString(tk[from(k)]) \/ tk[from(k) + 1] # <<":">>
                             THEN ParseError
                        ELSE IF ~key(k).ok THEN ParseError
                        ELSE ParseRange(tk, br, from(k) + 2, to(k))]
         IN  IF closed \/ DepthBefore(br, hi) # base + 1 THEN ParseError
             ELSE IF hi = lo + 1 THEN [ok |-> TRUE, v |-> Dict(<<>>)]
             ELSE IF \E k \in 1..n : ~val[k].ok THEN ParseError
             ELSE [ok |-> TRUE,
                   v |-> Dict(DictOf([k \in 1..n |->
                                <<JoinText(key(k).v.s), val[k].v>>]))]

\* json.loads: the text spells one value
Loads(text) == LET tk == Tokens(text) IN ParseRange(tk, Braces(tk), 1, Len(tk))

-----------------------------------------------------------------------------
(* update-metrics.py, statement by statement *)

NoError == [exc |-> "none", at |-> "none"]

\* an uncaught exception ends the script where it is raised
Raise(exc) ==
    /\ pc' = "aborted"
    /\ error' = [exc |-> exc, at |-> pc]

\* mutant: a request issued a second time
Issue_Retried(log, what) == Append(Append(log, what), what)

\* one blocking request to an external service (pd.read_csv of a URL,
\* requests.get, urlopen)
Issue(log, what) == Append(log, what)

Description ==
    <<"This file contains metrics which quantify the success of NASA's Kepler and K2 missions.">>

\* datetime.isoformat(): YYYY-MM-DDTHH:MM:SS.ffffff (the day and the time
\* of day are one fixed run of characters here)
Pad2(n) == IF n < 10 THEN <<"0">> \o NatToText(n) ELSE NatToText(n)
IsoFormat(now) ==
    NatToText(now.year) \o <<"-">> \o Pad2(now.month) \o <<"-", "15T10:00:00.000000">>

\* mutant: the output file opened before the collectors run
Main_OpensOutputFirst ==
    /\ pc = "main"
    /\ metrics' = SetItem(SetItem(<<>>, "description", Str(Description)),
                          "last_update", Str(IsoFormat(env.now)))
    /\ files' = [files EXCEPT !.json = <<>>]
    /\ callLog' = Append(callLog, <<"call", "planets">>)
    /\ pc' = "read_exoplanets"
    /\ UNCHANGED <<env, df_exoplanets, df_composite, df, pmetrics,
                   fetchLog, error, rpc, rmetrics, month, rerror>>

\* mutant: the timestamp stored before the description
Main_TimestampFirst ==
    /\ pc = "main"
    /\ metrics' = SetItem(SetItem(<<>>, "last_update", Str(IsoFormat(env.now))),
                          "description", Str(Description))
    /\ callLog' = Append(callLog, <<"call", "planets">>)
    /\ pc' = "read_exoplanets"
    /\ UNCHANGED <<env, df_exoplanets, df_composite, df, pmetrics, files,
                   fetchLog, error, rpc, rmetrics, month, rerror>>

\* lines 132-136: the document is started, then get_planet_metrics is called
Main ==
    /\ pc = "main"
    /\ metrics' = SetItem(SetItem(<<>>, "description", Str(Description)),
                          "last_update", Str(IsoFormat(env.now)))
    /\ callLog' = Append(callLog, <<"call", "planets">>)
    /\ pc' = "read_exoplanets"
    /\ UNCHANGED <<env, df_exoplanets, df_composite, df, pmetrics, files,
                   fetchLog, error, rpc, rmetrics, month, rerror>>

\* line 55
ReadExoplanets ==
    /\ pc = "read_exoplanets"
    /\ fetchLog' = Issue(fetchLog, "exoplanets")
    /\ \/ /\ df_exoplanets' = env.exoplanets
          /\ pc' = "read_composite"
          /\ UNCHANGED error
       \/ /\ Raise("URLError")
          /\ UNCHANGED df_exoplanets
    /\ UNCHANGED <<env, df_composite, df, pmetrics, metrics, files, callLog,
                   rpc, rmetrics, month, rerror>>

\* line 56
ReadComposite ==
    /\ pc = "read_composite"
    /\ fetchLog' = Issue(fetchLog, "compositepars")
    /\ \/ /\ df_composite' = env.composite
          /\ pc' = "merge"
          /\ UNCHANGED error
       \/ /\ Raise("URLError")
          /\ UNCHANGED df_composite
    /\ UNCHANGED <<env, df_exoplanets, df, pmetrics, metrics, files, callLog,
                   rpc, rmetrics, month, rerror>>

\* lines 57-61: the join, then the two assertions
MergeTables ==
    /\ pc = "merge"
    /\ df' = Merge(df_exoplanets, df_composite)
    /\ IF SanityChecksPass(df_exoplanets, df_composite, df')
       THEN pc' = "to_csv" /\ UNCHANGED error
       ELSE Raise("AssertionError")
    /\ UNCHANGED <<env, df_exoplanets, df_composite, pmetrics, metrics, files,
                   fetchLog, callLog, rpc, rmetrics, month, rerror>>

\* line 68
ToCsv ==
    /\ pc = "to_csv"
    /\ files' = [files EXCEPT !.csv = [format |-> "csv", table |-> df]]
    /\ pc' = "to_hdf"
    /\ UNCHANGED <<env, df_exoplanets, df_composite, df, pmetrics, metrics,
                   fetchLog, callLog, error, rpc, rmetrics, month, rerror>>

\* line 69
ToHdf ==
    /\ pc = "to_hdf"
    /\ files' = [files EXCEPT !.hdf = [format |-> "hdf", key |-> "planets", table |-> df]]
    /\ pc' = "count_confirmed"
    /\ UNCHANGED <<env, df_exoplanets, df_composite, df, pmetrics, metrics,
                   fetchLog, callLog, error, rpc, rmetrics, month, rerror>>

\* lines 71-102
CountConfirmed ==
    /\ pc = "count_confirmed"
    /\ pmetrics' = ConfirmedCounts(df)
    /\ pc' = "read_kepler_candidates"
    /\ UNCHANGED <<env, df_exoplanets, df_composite, df, metrics, files,
                   fetchLog, callLog, error, rpc, rmetrics, month, rerror>>

\* int(df['count(*)'][0]) of a count query's answer: the first row, if any
FirstCount(reply) ==
    IF reply = <<>> THEN [ok |-> FALSE, v |-> PyInt(0)]
    ELSE [ok |-> TRUE, v |-> PyInt(reply[1])]

\* lines 105-107
ReadKeplerCandidates ==
    /\ pc = "read_kepler_candidates"
    /\ fetchLog' = Issue(fetchLog, "cumulative")
    /\ \/ LET c == FirstCount(env.kepler_candidates)
          IN  IF c.ok
              THEN /\ pmetrics' = SetItem(pmetrics, "kepler_candidates_count", c.v)
                   /\ pc' = "read_k2_candidates"
                   /\ UNCHANGED error
              ELSE Raise("IndexError") /\ UNCHANGED pmetrics
       \/ Raise("URLError") /\ UNCHANGED pmetrics
    /\ UNCHANGED <<env, df_exoplanets, df_composite, df, metrics, files,
                   callLog, rpc, rmetrics, month, rerror>>

\* lines 110-112
ReadK2Candidates ==
    /\ pc = "read_k2_candidates"
    /\ fetchLog' = Issue(fetchLog, "k2candidates")
    /\ \/ LET c == FirstCount(env.k2_candidates)
          IN  IF c.ok
              THEN /\ pmetrics' = SetItem(pmetrics, "k2_candidates_count", c.v)
                   /\ pc' = "combine"
                   /\ UNCHANGED error
              ELSE Raise("IndexError") /\ UNCHANGED pmetrics
       \/ Raise("URLError") /\ UNCHANGED pmetrics
    /\ UNCHANGED <<env, df_exoplanets, df_composite, df, metrics, files,
                   callLog, rpc, rmetrics, month, rerror>>

\* lines 115-120, and line 136 storing what get_planet_metrics returns
CombineCounts ==
    /\ pc = "combine"
    /\ pmetrics' = CombinedCounts(pmetrics)
    /\ metrics' = SetItem(metrics, "planets", Dict(pmetrics'))
    /\ callLog' = Append(Append(callLog, <<"return", "planets">>),
                         <<"call", "publications">>)
    /\ pc' = "publications"
    /\ UNCHANGED <<env, df_exoplanets, df_composite, df, files, fetchLog,
                   error, rpc, rmetrics, month, rerror>>

\* lines 12-16 and 137: whatever kpub.PublicationDB().get_metrics() returns
GetPublicationMetrics ==
    /\ pc = "publications"
    /\ \/ /\ metrics' = SetItem(metrics, "publications", Dict(env.publications))
          /\ callLog' = Append(Append(callLog, <<"return", "publications">>),
                               <<"call", "twitter">>)
          /\ pc' = "twitter"
          /\ UNCHANGED error
       \/ Raise("kpub error") /\ UNCHANGED <<metrics, callLog>>
    /\ UNCHANGED <<env, df_exoplanets, df_composite, df, pmetrics, files,
                   fetchLog, rpc, rmetrics, month, rerror>>

\* s.replace(',', '')
RemoveCommas(s) == SelectSeq(s, LAMBDA c : c # ",")

\* s.split(' ')[0]
RECURSIVE UpToSpace(_, _)
UpToSpace(s, i) ==
    IF i > Len(s) \/ s[i] = " " THEN SubSeq(s, 1, i - 1) ELSE UpToSpace(s, i + 1)

\* int(text) of a decimal numeral; ValueError otherwise
ParseInt(s) ==
    IF s # <<>> /\ \A i \in DOMAIN s : IsDigit(s[i])
    THEN [ok |-> TRUE, v |-> PyInt(ScanDigits(s, 1, 0).v)]
    ELSE [ok |-> FALSE, v |-> PyInt(0)]

\* lines 26-28: the followers item of the profile page, its title, its number
FollowersOf(page) ==
    IF ~page.found THEN [ok |-> FALSE, v |-> PyInt(0)]
    ELSE ParseInt(RemoveCommas(UpToSpace(page.title, 1)))

\* lines 19-37 and 138
GetTwitterMetrics ==
    /\ pc = "twitter"
    /\ fetchLog' = Issue(fetchLog, "twitter")
    /\ \/ LET f == FollowersOf(env.twitter)
              m == SetItem(SetItem(<<>>, "keplergo_followers_count", f.v),
                           "followers_count", f.v)
          IN  IF f.ok
              THEN /\ metrics' = SetItem(metrics, "twitter", Dict(m))
                   /\ callLog' = Append(Append(callLog, <<"return", "twitter">>),
                                        <<"call", "lightkurve">>)
                   /\ pc' = "lightkurve"
                   /\ UNCHANGED error
              ELSE Raise("ParseError") /\ UNCHANGED <<metrics, callLog>>
       \/ Raise("ConnectionError") /\ UNCHANGED <<metrics, callLog>>
    /\ UNCHANGED <<env, df_exoplanets, df_composite, df, pmetrics, files,
                   rpc, rmetrics, month, rerror>>

\* lines 44-49: the five counters copied from the answer, in this order
LightkurveFields ==
    <<"forks_count", "watchers_count", "stargazers_count", "open_issues_count",
      "subscribers_count">>

CopyFields(js, names) == [i \in DOMAIN names |-> <<names[i], Get(js, names[i])>>]

\* lines 40-50 and 139
GetLightkurveMetrics ==
    /\ pc = "lightkurve"
    /\ fetchLog' = Issue(fetchLog, "github")
    /\ \/ LET js == Loads(env.github)
          IN  IF ~js.ok \/ js.v.type # "dict" THEN
                  Raise("JSONDecodeError") /\ UNCHANGED <<metrics, callLog>>
              ELSE IF \E i \in DOMAIN LightkurveFields :
                          ~HasKey(js.v.items, LightkurveFields[i]) THEN
                  Raise("KeyError") /\ UNCHANGED <<metrics, callLog>>
              ELSE
                  /\ metrics' = SetItem(metrics, "lightkurve",
                                   Dict(CopyFields(js.v.items, LightkurveFields)))
                  /\ callLog' = Append(callLog, <<"return", "lightkurve">>)
                  /\ pc' = "open_output"
                  /\ UNCHANGED error
       \/ Raise("URLError") /\ UNCHANGED <<metrics, callLog>>
    /\ UNCHANGED <<env, df_exoplanets, df_composite, df, pmetrics, files,
                   rpc, rmetrics, month, rerror>>

\* line 141: open(output_fn, 'w') empties the file
OpenOutput ==
    /\ pc = "open_output"
    /\ files' = [files EXCEPT !.json = <<>>]
    /\ pc' = "dump"
    /\ UNCHANGED <<env, df_exoplanets, df_composite, df, pmetrics, metrics,
                   fetchLog, callLog, error, rpc, rmetrics, month, rerror>>

\* line 143: json.dump writes as it encodes; the file is closed either way
DumpMetrics ==
    /\ pc = "dump"
    /\ LET out == Dumps(metrics)
       IN  /\ files' = [files EXCEPT !.json = out.text]
           /\ IF out.ok THEN pc' = "done" /\ UNCHANGED error
              ELSE Raise("TypeError")
    /\ UNCHANGED <<env, df_exoplanets, df_composite, df, pmetrics, metrics,
                   fetchLog, callLog, rpc, rmetrics, month, rerror>>

-----------------------------------------------------------------------------
(* update-html.py, statement by statement *)

RRaise(exc) ==
    /\ rpc' = "aborted"
    /\ rerror' = [exc |-> exc, at |-> rpc]

\* line 5; the script is run once update-metrics.py has ended
LoadMetrics ==
    /\ rpc = "load"
    /\ pc \in {"done", "aborted"}
    /\ LET r == Loads(files.json)
       IN  IF r.ok
           THEN rmetrics' = r.v /\ rpc' = "month" /\ UNCHANGED rerror
           ELSE RRaise("JSONDecodeError") /\ UNCHANGED rmetrics
    /\ UNCHANGED <<env, pc, df_exoplanets, df_composite, df, pmetrics, metrics,
                   files, fetchLog, callLog, error, month>>

MonthNames ==
    <<"January", "February", "March", "April", "May", "June", "July",
      "August", "September", "October", "November", "December">>

\* dateutil.parser.parse(text).strftime('%B %Y') of an ISO-8601 timestamp
MonthLabel(text) ==
    LET y == ScanDigits(text, 1, 0)
        m == ScanDigits(text, y.next + 1, 0)
    IN  IF /\ y.next > 1
           /\ y.next <= Len(text) /\ text[y.next] = "-"
           /\ m.next > y.next + 1
           /\ m.v \in DOMAIN MonthNames
        THEN [ok |-> TRUE, label |-> <<MonthNames[m.v], " ">> \o NatToText(y.v)]
        ELSE [ok |-> FALSE, label |-> <<>>]

\* line 6
DeriveMonth ==
    /\ rpc = "month"
    /\ IF rmetrics.type # "dict" THEN RRaise("TypeError") /\ UNCHANGED month
       ELSE IF ~HasKey(rmetrics.items, "last_update")
            THEN RRaise("KeyError") /\ UNCHANGED month
       ELSE LET u == Get(rmetrics.items, "last_update")
                l == MonthLabel(u.s)
            IN  IF u.type = "str" /\ l.ok
                THEN month' = l.label /\ rpc' = "get_template" /\ UNCHANGED rerror
                ELSE RRaise("ValueError") /\ UNCHANGED month
    /\ UNCHANGED <<env, pc, df_exoplanets, df_composite, df, pmetrics, metrics,
                   files, fetchLog, callLog, error, rmetrics>>

\* lines 8-12
GetTemplate ==
    /\ rpc = "get_template"
    /\ rpc' = "open_output"
    /\ UNCHANGED <<env, pc, df_exoplanets, df_composite, df, pmetrics, metrics,
                   files, fetchLog, callLog, error, rmetrics, month, rerror>>

\* line 13: open(output_fn, 'w') empties the file
OpenPage ==
    /\ rpc = "open_output"
    /\ files' = [files EXCEPT !.html = <<>>]
    /\ rpc' = "render"
    /\ UNCHANGED <<env, pc, df_exoplanets, df_composite, df, pmetrics, metrics,
                   fetchLog, callLog, error, rmetrics, month, rerror>>

\* What Environment(loader=..., trim_blocks=True) makes of {{ a.b.c }}: the
\* environment's `undefined` is jinja2's default Undefined.  A name or a key
\* that is not there evaluates to Undefined; looking anything up in an
\* Undefined raises UndefinedError.
Undefined == [kind |-> "undefined", v |-> PyInt(0)]
UndefinedError == [kind |-> "error", v |-> PyInt(0)]

\* mutant: an Undefined that can be looked into (jinja2's ChainableUndefined)
RECURSIVE Lookup_Chainable(_, _, _)
Lookup_Chainable(cur, path, i) ==
    IF i > Len(path) THEN cur
    ELSE IF cur.kind = "undefined" THEN Lookup_Chainable(Undefined, path, i + 1)
    ELSE IF cur.v.type = "dict" /\ HasKey(cur.v.items, path[i])
         THEN Lookup_Chainable([kind |-> "value", v |-> Get(cur.v.items, path[i])],
                               path, i + 1)
    ELSE Lookup_Chainable(Undefined, path, i + 1)

RECURSIVE Lookup(_, _, _)
Lookup(cur, path, i) ==
    IF i > Len(path) THEN cur
    ELSE IF cur.kind = "undefined" THEN UndefinedError
    ELSE IF cur.v.type = "dict" /\ HasKey(cur.v.items, path[i])
         THEN Lookup([kind |-> "value", v |-> Get(cur.v.items, path[i])], path, i + 1)
    ELSE Lookup(Undefined, path, i + 1)

\* str() of what an expression evaluates to; an Undefined prints as nothing
\* (a mapping prints as its repr, abbreviated here)
ToText(x) ==
    IF x.kind = "undefined" THEN <<>>
    ELSE IF x.v.type = "str" THEN x.v.s
    ELSE IF x.v.type = "dict" THEN <<"{", "...", "}">>
    ELSE IntToText(x.v.n)

\* tmpl.render(metrics=metrics, month=month): the text of every expression
\* of the template, in order, or the exception
Render(template, context) ==
    LET val(k) == Lookup([kind |-> "value", v |-> Dict(context)], template[k], 1)
    IN  IF \E k \in DOMAIN template : val(k).kind = "error"
        THEN [ok |-> FALSE, page |-> <<>>]
        ELSE [ok |-> TRUE, page |-> [k \in DOMAIN template |-> ToText(val(k))]]

\* line 14: render, then write
RenderPage ==
    /\ rpc = "render"
    /\ LET r == Render(env.template,
                       << <<"metrics", rmetrics>>, <<"month", Str(month)>> >>)
       IN  IF r.ok
           THEN /\ files' = [files EXCEPT !.html = r.page]
                /\ rpc' = "done"
                /\ UNCHANGED rerror
           ELSE RRaise("UndefinedError") /\ UNCHANGED files
    /\ UNCHANGED <<env, pc, df_exoplanets, df_composite, df, pmetrics, metrics,
                   fetchLog, callLog, error, rmetrics, month>>

-----------------------------------------------------------------------------
(* The outside world: archive tables, answers of the services, old files *)

MaxRows == 3
MaxPlanets == 2
MaxRefs == 2
MaxCandidates == 2

ExoplanetRow(name, facility) == [pl_name |-> name, pl_facility |-> facility]

CompositeRow(name, p) ==
    [fpl_name |-> name, fpl_rade |-> p.fpl_rade,
     fpl_radeerr1 |-> p.fpl_radeerr1, fpl_radeerr2 |-> p.fpl_radeerr2,
     fpl_bmassprov |-> p.fpl_bmassprov, fpl_bmasselim |-> p.fpl_bmasselim,
     fpl_bmasse |-> p.fpl_bmasse,
     fpl_bmasseerr1 |-> p.fpl_bmasseerr1, fpl_bmasseerr2 |-> p.fpl_bmasseerr2]

Parameters(rade, radeerr1, radeerr2, prov, lim, masse, masseerr1, masseerr2) ==
    [fpl_rade |-> rade, fpl_radeerr1 |-> radeerr1, fpl_radeerr2 |-> radeerr2,
     fpl_bmassprov |-> prov, fpl_bmasselim |-> lim, fpl_bmasse |-> masse,
     fpl_bmasseerr1 |-> masseerr1, fpl_bmasseerr2 |-> masseerr2]

\* composite parameters on both sides of every threshold of the collector
Profiles ==
    { Parameters(F(100), F(5), F(-5), "Mass", F(0), F(100), F(5), F(-5)),
      Parameters(F(125), F(20), F(-20), "Mass", F(0), F(500), F(90), F(-90)),
      Parameters(F(199), F(10), F(-10), "Msini", F(0), F(800), F(10), F(-10)),
      Parameters(F(200), F(50), F(-50), "Mass", F(1), F(1700), F(20), F(-20)),
      Parameters(F(600), NaN, NaN, "Mass", NaN, F(9000), F(100), F(-100)),
      Parameters(F(1499), F(100), F(-100), "M-R relationship", F(0), F(30000), NaN, NaN),
      Parameters(F(1500), F(150), F(-150), "Mass", F(0), F(0), F(0), F(0)),
      Parameters(NaN, NaN, NaN, "Mass", F(0), F(100), F(10), F(-10)) }

Names == {"Kepler-1 b", "K2-3 b"}

DefaultParameters == Parameters(F(100), F(5), F(-5), "Mass", F(0), F(100), F(5), F(-5))
FacilityOf(name) == IF name = "K2-3 b" THEN "K2" ELSE "Kepler"

SeqsUpTo(S, n) == UNION {[1..k -> S] : k \in 0..n}

\* a count query answers one row with the count, or no row at all
CountReplies == {<<>>} \cup {<<c>> : c \in 0..MaxCandidates}

Publications ==
    { << <<"publication_count", PyInt(2946)>>, <<"kepler_count", Int64(2220)>>,
         <<"k2_count", PyInt(0)>> >>,
      << <<"publication_count", Int64(-1)>>,
         <<"phd", Dict(<< <<"count", Int64(10)>>, <<"since", Str(<<"2009">>)>>,
                          <<"empty", Dict(<<>>)>> >>)>>,
         <<"note", Str(<<"say ", Quote, "hi", Quote, " ", Backslash, Newline, " n">>)>> >>,
      << <<"publication_count", PyInt(7)>>, <<"refereed_count", Int32(5)>>,
         <<"citation_count", PyInt(9)>> >>,
      <<>> }

ProfilePages ==
    { [found |-> TRUE, title |-> <<"1", ",", "2", "3", "4", " ", "Followers">>],
      [found |-> TRUE, title |-> <<"7", " ", "Followers">>],
      [found |-> TRUE, title |-> <<"1", ".", "2", "K", " ", "Followers">>],
      [found |-> FALSE, title |-> <<>>] }

GithubFull ==
    << <<"name", Str(<<"lightkurve">>)>>, <<"forks_count", PyInt(31)>>,
       <<"stargazers_count", PyInt(140)>>, <<"watchers_count", PyInt(140)>>,
       <<"open_issues_count", PyInt(0)>>, <<"subscribers_count", PyInt(17)>> >>

GithubReplies ==
    { Dumps(GithubFull).text,
      Dumps(SubSeq(GithubFull, 1, 5)).text,
      <<<<"<", "html", ">">>>> }

\* the expressions of html/dashboard-template.html, each the path of names
\* it looks up
Expressions ==
    { <<"month">>,
      <<"metrics", "last_update">>,
      <<"metrics", "planets", "kepler_confirmed_count">>,
      <<"metrics", "planets", "confirmed_with_mass_10percent_count">>,
      <<"metrics", "twitter", "followers_count">>,
      <<"metrics", "twitter", "nasakepler_followers_count">>,
      <<"metrics", "github", "stargazers_count">>,
      <<"metrics", "lightkurve", "forks_count", "total">>,
      <<"metric", "planets">> }

DefaultTemplate ==
    << <<"month">>, <<"metrics", "planets", "kepler_confirmed_count">>,
       <<"metrics", "twitter", "followers_count">> >>

DefaultEnv ==
    [exoplanets |-> <<ExoplanetRow("Kepler-1 b", "Kepler"), ExoplanetRow("K2-3 b", "K2")>>,
     composite |-> <<CompositeRow("Kepler-1 b", DefaultParameters),
                     CompositeRow("K2-3 b", DefaultParameters)>>,
     kepler_candidates |-> <<2>>,
     k2_candidates |-> <<1>>,
     publications |-> << <<"publication_count", PyInt(2946)>> >>,
     twitter |-> [found |-> TRUE, title |-> <<"7", " ", "Followers">>],
     github |-> Dumps(GithubFull).text,
     now |-> [year |-> 2024, month |-> 3],
     template |-> DefaultTemplate]

\* what an earlier run left on disk
OldMetrics ==
    << <<"description", Str(Description)>>,
       <<"last_update", Str(IsoFormat([year |-> 2023, month |-> 11]))>>,
       <<"planets", Dict(<< <<"kepler_confirmed_count", PyInt(2300)>> >>)>>,
       <<"publications", Dict(<<>>)>>,
       <<"twitter", Dict(<< <<"followers_count", PyInt(5)>> >>)>> >>

OldFiles ==
    [json |-> Dumps(OldMetrics).text,
     csv |-> [format |-> "csv", table |-> <<>>],
     hdf |-> [format |-> "hdf", key |-> "planets", table |-> <<>>],
     html |-> <<<<"November 2023">>, <<"2", "3", "0", "0">>, <<"5">>>>]

InitWith(e) ==
    /\ env = e
    /\ pc = "main"
    /\ df_exoplanets = <<>>
    /\ df_composite = <<>>
    /\ df = <<>>
    /\ pmetrics = <<>>
    /\ metrics = <<>>
    /\ files = OldFiles
    /\ fetchLog = <<>>
    /\ callLog = <<>>
    /\ error = NoError
    /\ rpc = "load"
    /\ rmetrics = Dict(<<>>)
    /\ month = <<>>
    /\ rerror = NoError

\* a run against any mix of the answers of the services
Init ==
    \E kc \in CountReplies, k2c \in {<<>>, <<1>>}, pub \in Publications,
       page \in ProfilePages, gh \in GithubReplies,
       tm \in {DefaultTemplate, <<<<"metrics", "github", "stargazers_count">>>>},
       short \in BOOLEAN :
        InitWith([DefaultEnv EXCEPT
            !.template = tm,
            !.kepler_candidates = kc, !.k2_candidates = k2c,
            !.publications = pub, !.twitter = page, !.github = gh,
            !.composite = IF short THEN SubSeq(@, 1, 1) ELSE @])

\* runs over the archive tables of at most MaxRows rows
InitJoin ==
    \E ex \in SeqsUpTo(Names, MaxRows), co \in SeqsUpTo(Names, MaxRows) :
        InitWith([DefaultEnv EXCEPT
            !.exoplanets = [i \in DOMAIN ex |-> ExoplanetRow(ex[i], FacilityOf(ex[i]))],
            !.composite = [i \in DOMAIN co |-> CompositeRow(co[i], DefaultParameters)]])

PlanetName(i) == JoinText(<<"Kepler-">> \o NatToText(i) \o <<" b">>)

\* a planet of the archive: its facility and its composite parameters. The
\* collector applies the same masks to both missions and looks at no other
\* facility's parameters: Kepler planets take every profile, K2 planets two
\* of them (an earth-size planet with mass and radius within 10 percent, and
\* a neptune-size planet whose mass is a limit), any other planet one.
Planets ==
    ({"Kepler"} \X Profiles)
        \cup ({"K2"} \X {p \in Profiles : p.fpl_rade \in {F(100), F(200)}})
        \cup {<<"TESS", DefaultParameters>>}

\* runs over matching archive tables of at most MaxPlanets planets
InitPlanets ==
    \E n \in 0..MaxPlanets :
        \E pl \in [1..n -> Planets] :
            InitWith([DefaultEnv EXCEPT
                !.exoplanets = [i \in 1..n |-> ExoplanetRow(PlanetName(i), pl[i][1])],
                !.composite = [i \in 1..n |-> CompositeRow(PlanetName(i), pl[i][2])]])

\* runs over the templates of at most MaxRefs expressions
InitRender ==
    \E tm \in SeqsUpTo(Expressions, MaxRefs), short \in BOOLEAN :
        InitWith([DefaultEnv EXCEPT
            !.template = tm,
            !.composite = IF short THEN SubSeq(@, 1, 1) ELSE @])

Next ==
    \/ Main
    \/ ReadExoplanets
    \/ ReadComposite
    \/ MergeTables
    \/ ToCsv
    \/ ToHdf
    \/ CountConfirmed
    \/ ReadKeplerCandidates
    \/ ReadK2Candidates
    \/ CombineCounts
    \/ GetPublicationMetrics
    \/ GetTwitterMetrics
    \/ GetLightkurveMetrics
    \/ OpenOutput
    \/ DumpMetrics
    \/ LoadMetrics
    \/ DeriveMonth
    \/ GetTemplate
    \/ OpenPage
    \/ RenderPage

Spec == Init /\ [][Next]_vars
SpecJoin == InitJoin /\ [][Next]_vars
SpecPlanets == InitPlanets /\ [][Next]_vars
SpecRender == InitRender /\ [][Next]_vars

-----------------------------------------------------------------------------
(* The statements of update-metrics.py in program order *)

Statements ==
    <<"main", "read_exoplanets", "read_composite", "merge", "to_csv", "to_hdf",
      "count_confirmed", "read_kepler_candidates", "read_k2_candidates",
      "combine", "publications", "twitter", "lightkurve", "open_output",
      "dump", "done">>

IndexOf(s) == CHOOSE i \in DOMAIN Statements : Statements[i] = s

\* the statement the script is at, or was at when it raised
Position == IF pc = "aborted" THEN error.at ELSE pc

\* statement s has run and returned normally
Completed(s) == IndexOf(Position) > IndexOf(s)

IsPrefix(s, t) == Len(s) <= Len(t) /\ s = SubSeq(t, 1, Len(s))

Count(k) == Get(pmetrics, k).n

-----------------------------------------------------------------------------
(* Claims *)

\* C1 (as stated): whenever a run of either script has been aborted by a
\* failure, every output file has the content it had before the run.
C1_FailureLeavesFilesUntouched ==
    /\ pc = "aborted" =>
          /\ files.json = OldFiles.json
          /\ files.csv = OldFiles.csv
          /\ files.hdf = OldFiles.hdf
    /\ rpc = "aborted" => files.html = OldFiles.html

\* C1 (amended): a failure leaves a file untouched exactly when it strikes
\* before the statement that writes the file. A failed catalog fetch or join
\* assertion leaves all files of update-metrics.py as they were; any failure
\* up to the last collector leaves kepler-dashboard.json as it was, but from
\* the candidate fetches on the CSV and HDF files already hold the new joined
\* table; a serialization failure leaves kepler-dashboard.json cut off where
\* the failure struck (not a JSON document). In update-html.py a failure to
\* load the metrics or to derive the month leaves html/index.html as it was;
\* a rendering failure leaves it empty.
C1_FailureLeavesUnwrittenFilesUntouched ==
    /\ pc = "aborted" /\ ~Completed("merge") =>
          /\ files.csv = OldFiles.csv
          /\ files.hdf = OldFiles.hdf
    /\ pc = "aborted" /\ Completed("to_hdf") =>
          /\ files.csv = [format |-> "csv", table |-> df]
          /\ files.hdf = [format |-> "hdf", key |-> "planets", table |-> df]
    /\ pc = "aborted" /\ ~Completed("open_output") => files.json = OldFiles.json
    /\ pc = "aborted" /\ Completed("open_output") =>
          /\ IsPrefix(files.json, Dumps(metrics).text)
          /\ ~Loads(files.json).ok
    /\ rpc = "aborted" /\ rerror.at \in {"load", "month"} =>
          files.html = OldFiles.html
    /\ rpc = "aborted" /\ rerror.at = "render" => files.html = <<>>
    /\ pc = "aborted" => error.exc # "none"
    /\ rpc = "aborted" => rerror.exc # "none"

\* C1 witness: serialization failed, then the renderer failed to load the
\* cut-off file; and a candidate fetch failed after the side-artifacts changed
C1_Witness ==
    /\ pc = "aborted" /\ error.exc = "TypeError"
    /\ files.json # OldFiles.json
    /\ files.csv # OldFiles.csv
    /\ rpc = "aborted" /\ rerror.exc = "JSONDecodeError"

\* C2 (as stated): once get_composite_planet_table has returned, every row of
\* the exoplanets table matches exactly one row of the composite table on
\* pl_name = fpl_name.
C2_ReturnedJoinIsLossless ==
    Completed("merge") =>
        \A i \in DOMAIN df_exoplanets :
            Cardinality({j \in DOMAIN df_composite :
                df_composite[j].fpl_name = df_exoplanets[i].pl_name}) = 1

\* C3: no planet metric is computed and no file of update-metrics.py is
\* written unless the joined table has as many rows as each input table; when
\* the row counts differ the run has raised at the join, with no metric
\* computed and all three files as they were.
C3_RowCountsGuardMetrics ==
    /\ (Completed("merge") \/ pmetrics # <<>>
            \/ files.csv # OldFiles.csv \/ files.hdf # OldFiles.hdf
            \/ files.json # OldFiles.json) =>
          /\ Len(df) = Len(df_exoplanets)
          /\ Len(df) = Len(df_composite)
    /\ (IndexOf(Position) >= IndexOf("merge") /\ pc # "merge"
            /\ (Len(df) # Len(df_exoplanets) \/ Len(df) # Len(df_composite))) =>
          /\ pc = "aborted" /\ error = [exc |-> "AssertionError", at |-> "merge"]
          /\ pmetrics = <<>>
          /\ files.csv = OldFiles.csv /\ files.hdf = OldFiles.hdf
          /\ files.json = OldFiles.json

\* C3 witness: the join kept every exoplanets row, the composite table is
\* longer, and the run raised at the join
C3_Witness ==
    /\ pc = "aborted" /\ error.exc = "AssertionError"
    /\ Len(df) = Len(df_exoplanets) /\ Len(df) > 0
    /\ Len(df_composite) > Len(df)
    /\ rpc # "load"

MetricNames ==
    {"candidates", "confirmed", "confirmed_with_mass",
     "confirmed_with_mass_10percent", "confirmed_with_radius_10percent",
     "confirmed_with_mass_radius_10percent", "earth_size", "super_earth_size",
     "neptune_size", "jupiter_size", "larger_size"}

PrecisionNames ==
    {"confirmed_with_mass_10percent", "confirmed_with_radius_10percent",
     "confirmed_with_mass_radius_10percent"}

\* C4 (as stated): in the mapping get_planet_metrics returns, every name X
\* with both kepler_X_count and k2_X_count has X_count, their sum.
C4_EveryPairHasTotal ==
    Completed("combine") =>
        \A X \in MetricNames :
            (HasKey(pmetrics, "kepler_" \o X \o "_count")
                /\ HasKey(pmetrics, "k2_" \o X \o "_count")) =>
              /\ HasKey(pmetrics, X \o "_count")
              /\ Count(X \o "_count")
                    = Count("kepler_" \o X \o "_count") + Count("k2_" \o X \o "_count")

\* C4 (amended): the mapping get_planet_metrics returns holds kepler_X_count
\* and k2_X_count for all eleven names X; X_count is present and is their sum
\* for candidates, confirmed, confirmed_with_mass and the five size bins; the
\* three precision counts (confirmed_with_mass_10percent,
\* confirmed_with_radius_10percent, confirmed_with_mass_radius_10percent) get
\* no combined total.
C4_ListedPairsHaveTotal ==
    Completed("combine") =>
        /\ Get(metrics, "planets") = Dict(pmetrics)
        /\ \A X \in MetricNames :
              /\ HasKey(pmetrics, "kepler_" \o X \o "_count")
              /\ HasKey(pmetrics, "k2_" \o X \o "_count")
        /\ \A X \in MetricNames \ PrecisionNames :
              /\ HasKey(pmetrics, X \o "_count")
              /\ Count(X \o "_count")
                    = Count("kepler_" \o X \o "_count") + Count("k2_" \o X \o "_count")
        /\ \A X \in PrecisionNames : ~HasKey(pmetrics, X \o "_count")

\* C4 witness: a Kepler and a K2 planet, both with a measured mass
C4_Witness ==
    /\ Completed("combine")
    /\ Count("kepler_confirmed_with_mass_count") = 1
    /\ Count("k2_confirmed_with_mass_count") = 1
    /\ Count("confirmed_with_mass_count") = 2
    /\ Count("candidates_count") = 3

SizeNames ==
    {"earth_size", "super_earth_size", "neptune_size", "jupiter_size", "larger_size"}

RECURSIVE SumOver(_, _)
SumOver(S, prefix) ==
    IF S = {} THEN 0
    ELSE LET x == CHOOSE y \in S : TRUE
         IN  Count(prefix \o x \o "_count") + SumOver(S \ {x}, prefix)

\* the bins a radius belongs to, by the thresholds as the specification gives them
BinsOf(rade) ==
    {b \in SizeNames :
        /\ ~rade.nan
        /\ \/ b = "earth_size" /\ rade.x < 125
           \/ b = "super_earth_size" /\ 125 <= rade.x /\ rade.x < 200
           \/ b = "neptune_size" /\ 200 <= rade.x /\ rade.x < 600
           \/ b = "jupiter_size" /\ 600 <= rade.x /\ rade.x < 1500
           \/ b = "larger_size" /\ 1500 <= rade.x}

FacilityRows(fac) == {i \in DOMAIN df : df[i].pl_facility = fac}

SizeBinsPartition(prefix, fac) ==
    /\ \A b \in SizeNames :
          Count(prefix \o b \o "_count")
              = Cardinality({i \in FacilityRows(fac) : b \in BinsOf(df[i].fpl_rade)})
    /\ \A i \in FacilityRows(fac) :
          /\ Cardinality(BinsOf(df[i].fpl_rade)) <= 1
          /\ df[i].fpl_rade.nan => BinsOf(df[i].fpl_rade) = {}
    /\ SumOver(SizeNames, prefix) <= Count(prefix \o "confirmed_count")
    /\ SumOver(SizeNames, prefix) = Count(prefix \o "confirmed_count")
          <=> \A i \in FacilityRows(fac) : ~df[i].fpl_rade.nan

\* C5: for each facility every row is counted in at most one size bin, a row
\* without a radius in none, and the five size-bin counts sum to at most the
\* confirmed count, to exactly the confirmed count iff no row of the facility
\* lacks a radius.
C5_SizeBinsPartitionConfirmed ==
    Completed("count_confirmed") =>
        /\ SizeBinsPartition("kepler_", "Kepler")
        /\ SizeBinsPartition("k2_", "K2")

\* C5 witness: two Kepler planets, one without a radius, one on a threshold
C5_Witness ==
    /\ Completed("count_confirmed")
    /\ Count("kepler_confirmed_count") = 2
    /\ Count("kepler_neptune_size_count") = 1
    /\ SumOver(SizeNames, "kepler_") = 1
    /\ \E i \in DOMAIN df : df[i].fpl_rade = F(200)

OrderedCounts(prefix) ==
    /\ 0 <= Count(prefix \o "confirmed_with_mass_radius_10percent_count")
    /\ Count(prefix \o "confirmed_with_mass_radius_10percent_count")
          <= Count(prefix \o "confirmed_with_mass_10percent_count")
    /\ Count(prefix \o "confirmed_with_mass_10percent_count")
          <= Count(prefix \o "confirmed_with_mass_count")
    /\ Count(prefix \o "confirmed_with_mass_count") <= Count(prefix \o "confirmed_count")
    /\ Count(prefix \o "confirmed_with_mass_radius_10percent_count")
          <= Count(prefix \o "confirmed_with_radius_10percent_count")
    /\ Count(prefix \o "confirmed_with_radius_10percent_count")
          <= Count(prefix \o "confirmed_count")

\* C10: for each facility, mass_radius_10percent <= mass_10percent <= mass <=
\* confirmed and mass_radius_10percent <= radius_10percent <= confirmed, and
\* every count is >= 0.
C10_CountsAreOrdered ==
    Completed("count_confirmed") =>
        /\ OrderedCounts("kepler_")
        /\ OrderedCounts("k2_")
        /\ \A i \in DOMAIN pmetrics : pmetrics[i][2].n >= 0

\* C10 witness: a K2 planet with a precise mass and radius and one whose mass
\* is only an upper limit
C10_Witness ==
    /\ Completed("count_confirmed")
    /\ Count("k2_confirmed_count") = 2
    /\ Count("k2_confirmed_with_mass_count") = 1
    /\ Count("k2_confirmed_with_mass_radius_10percent_count") = 1
    /\ \E i \in DOMAIN df : df[i].fpl_bmasselim = F(1)

\* how many leading names of an expression are there to be found, looking
\* each up in what the one before it names
RECURSIVE Resolved(_, _, _)
Resolved(v, path, i) ==
    IF i > Len(path) THEN 0
    ELSE IF v.type = "dict" /\ HasKey(v.items, path[i])
         THEN 1 + Resolved(Get(v.items, path[i]), path, i + 1)
    ELSE 0

Context == Dict(<< <<"metrics", rmetrics>>, <<"month", Str(month)>> >>)
Found(k) == Resolved(Context, env.template[k], 1)
MissingKey(k) == Found(k) < Len(env.template[k])

\* C6 (as stated): update-html.py never completes a run whose template
\* references a key that is missing from the loaded metrics.
C6_MissingKeyIsFatal ==
    rpc = "done" => \A k \in DOMAIN env.template : ~MissingKey(k)

\* C6 (amended): a missing key is fatal only when the template looks
\* something up inside it: rendering raises, and nothing is written to the
\* emptied page, exactly when some expression has a missing key before its
\* last name. A missing key that is the last name of its expression is
\* rendered as empty text, and the run completes and writes the page.
C6_MissingKeyIsFatalOnlyWhenLookedInto ==
    /\ rpc = "done" =>
          /\ Len(files.html) = Len(env.template)
          /\ \A k \in DOMAIN env.template :
                /\ Found(k) >= Len(env.template[k]) - 1
                /\ MissingKey(k) => files.html[k] = <<>>
    /\ (rpc = "aborted" /\ rerror.at = "render") =>
          /\ rerror.exc = "UndefinedError"
          /\ \E k \in DOMAIN env.template : Found(k) < Len(env.template[k]) - 1
          /\ files.html = <<>>

\* C6 witness: a page was written with a missing key rendered as nothing
\* beside a key that is there
C6_Witness ==
    /\ rpc = "done"
    /\ Len(env.template) = 2
    /\ MissingKey(1) /\ files.html[1] = <<>>
    /\ ~MissingKey(2) /\ files.html[2] # <<>>

CallOrder ==
    << <<"call", "planets">>, <<"return", "planets">>,
       <<"call", "publications">>, <<"return", "publications">>,
       <<"call", "twitter">>, <<"return", "twitter">>,
       <<"call", "lightkurve">>, <<"return", "lightkurve">> >>

TopLevelKeys ==
    <<"description", "last_update", "planets", "publications", "twitter",
      "lightkurve">>

\* C7: the collectors are called in the order planets, publications, twitter,
\* lightkurve, each after the one before it returned; the metrics file is
\* opened only after all four returned; the document written has its
\* top-level keys in the order description, last_update, planets,
\* publications, twitter, lightkurve.
C7_CollectorsInOrderThenWrite ==
    /\ IsPrefix(callLog, CallOrder)
    /\ (Completed("open_output") \/ files.json # OldFiles.json) => callLog = CallOrder
    /\ pc = "done" =>
          LET r == Loads(files.json)
          IN  r.ok /\ r.v.type = "dict" /\ Keys(r.v.items) = TopLevelKeys

\* C7 witness: a run that wrote the document
C7_Witness ==
    /\ pc = "done" /\ callLog = CallOrder
    /\ files.json # OldFiles.json
    /\ rpc = "done"

FetchOrder ==
    <<"exoplanets", "compositepars", "cumulative", "k2candidates", "twitter", "github">>

FetchStatements ==
    <<"read_exoplanets", "read_composite", "read_kepler_candidates",
      "read_k2_candidates", "twitter", "lightkurve">>

\* the fetch statements the run has reached so far
Reached ==
    {k \in DOMAIN FetchStatements :
        \/ IndexOf(FetchStatements[k]) < IndexOf(Position)
        \/ pc = "aborted" /\ FetchStatements[k] = error.at}

\* C8: every fetch is issued at most once, in program order, one for each
\* fetch statement reached; after a fetch failed, or its answer could not be
\* parsed, the failed fetch stays the last one issued.
C8_FetchesOnceNoRetry ==
    /\ fetchLog = SubSeq(FetchOrder, 1, Cardinality(Reached))
    /\ \A i, j \in DOMAIN fetchLog : fetchLog[i] = fetchLog[j] => i = j
    /\ (pc = "aborted" /\ \E k \in DOMAIN FetchStatements : FetchStatements[k] = error.at) =>
          \E k \in DOMAIN FetchStatements :
              /\ FetchStatements[k] = error.at
              /\ Len(fetchLog) = k /\ fetchLog[k] = FetchOrder[k]

\* C8 witness: the Kepler candidate count could not be parsed; the renderer
\* has run since
C8_Witness ==
    /\ pc = "aborted" /\ error = [exc |-> "IndexError", at |-> "read_kepler_candidates"]
    /\ fetchLog = <<"exoplanets", "compositepars", "cumulative">>
    /\ rpc = "done"

\* a value with every numpy.int64 replaced by the int of the same value
RECURSIVE Native(_)
Native(v) ==
    IF v.type = "int64" THEN PyInt(v.n)
    ELSE IF v.type = "dict"
         THEN Dict([i \in DOMAIN v.items |-> <<v.items[i][1], Native(v.items[i][2])>>])
    ELSE v

\* every leaf is text, an int or a numpy.int64
RECURSIVE Supported(_)
Supported(v) ==
    IF v.type = "dict" THEN \A i \in DOMAIN v.items : Supported(v.items[i][2])
    ELSE v.type \in {"str", "int", "int64"}

\* C9: when the document holds only text, int and numpy.int64 leaves, the
\* dump succeeds, and reading the file back as update-html.py does gives the
\* same keys in the same order with the same values at every level, a
\* numpy.int64 read back as the int of the same value.
C9_DumpLoadRoundTrip ==
    (Completed("open_output") /\ pc # "dump" /\ Supported(Dict(metrics))) =>
        /\ pc = "done"
        /\ Loads(files.json) = [ok |-> TRUE, v |-> Native(Dict(metrics))]
        /\ rpc # "load" => rmetrics = Native(Dict(metrics))

\* C9 witness: a document with numpy.int64 counts, a nested mapping and text
\* with a quote, a backslash and a newline was written and loaded
C9_Witness ==
    /\ pc = "done" /\ rpc = "month"
    /\ \E i \in DOMAIN env.publications :
          /\ env.publications[i][2].type = "str"
          /\ \E c \in DOMAIN env.publications[i][2].s :
                env.publications[i][2].s[c] = Backslash
    /\ \E i \in DOMAIN env.publications : env.publications[i][2].type = "dict"
    /\ Get(pmetrics, "confirmed_count").type = "int64"

====
